---------------------------- MODULE Spec2Model ----------------------------
(***************************************************************************)
(* Model of src/tubeopt.py: the tube structural model (_TubeComponent) and *)
(* the optimisation wrapper (TubeOptimization.optimize).                   *)
(*                                                                         *)
(* Numbers.  The program computes in numpy float64, the binary64 format of *)
(* IEEE 754, and so does the model: every operation returns the binary64   *)
(* number nearest to the exact result, a tie going to the even             *)
(* significand, with overflow to an infinity, gradual underflow, signed    *)
(* zeros, x/0 an infinity, 0/0 and inf-inf not-a-number, and comparisons   *)
(* with not-a-number false.                                                *)
(* A number is a record [k, s, m, e]: k is "fin", "inf" or "nan", s the    *)
(* sign (1 or -1), and a finite number has the value s * m * 2^e, where    *)
(* the significand m is zero (with e = 0), or has exactly Precision bits,  *)
(* or has fewer and e = EMin (a subnormal number).  Significands and the   *)
(* exact intermediate results are natural numbers held as sequences of     *)
(* limbs of LimbBits bits, least significant first.                        *)
(***************************************************************************)
EXTENDS Integers, Sequences, FiniteSets, TLC

\* Bits of the significand of a binary64 number.
Precision == 53
\* Exponent of the least subnormal number, 2^-1074.
EMin == -1074
\* Greatest exponent of a full significand: (2^53 - 1) * 2^971 is the
\* largest finite number.
EMax == 971

\* Integers beyond 32 bits are sequences of limbs,
\* least significant first, without leading zero limbs (zero is <<>>).
LimbBits == 13
Base == 8192

Max(a, b) == IF a >= b THEN a ELSE b
Min(a, b) == IF a <= b THEN a ELSE b

RECURSIVE TwoTo(_)
TwoTo(n) == IF n <= 0 THEN 1 ELSE 2 * TwoTo(n - 1)

Pow2 == [n \in 0..LimbBits |-> TwoTo(n)]

Limb(a, i) == IF i >= 1 /\ i <= Len(a) THEN a[i] ELSE 0

RECURSIVE Trim(_)
Trim(a) ==
    IF a = <<>> THEN a
    ELSE IF a[Len(a)] = 0 THEN Trim(SubSeq(a, 1, Len(a) - 1))
    ELSE a

\* The limbs of a natural number n below Base * Base * Base.
FromInt(n) == Trim(<<n % Base, (n \div Base) % Base, n \div (Base * Base)>>)

BOne == <<1>>

\* The limbs from position i on of a + b + c, c the carry into position i.
RECURSIVE AddFrom(_, _, _, _)
AddFrom(a, b, i, c) ==
    IF i > Len(a) /\ i > Len(b) THEN (IF c = 0 THEN <<>> ELSE <<c>>)
    ELSE LET t == Limb(a, i) + Limb(b, i) + c
         IN  <<t % Base>> \o AddFrom(a, b, i + 1, t \div Base)

BAdd(a, b) == AddFrom(a, b, 1, 0)

\* The limbs from position i on of a - b, c the borrow (0 or -1).
RECURSIVE SubFrom(_, _, _, _)
SubFrom(a, b, i, c) ==
    IF i > Len(a) THEN <<>>
    ELSE LET t == a[i] - Limb(b, i) + c
         IN  <<t % Base>> \o SubFrom(a, b, i + 1, t \div Base)

\* a - b, for a >= b.
BSub(a, b) == Trim(SubFrom(a, b, 1, 0))

\* The limbs from position i on of a * n + c, n a natural number below Base.
RECURSIVE MulSmallFrom(_, _, _, _)
MulSmallFrom(a, n, i, c) ==
    IF i > Len(a) THEN (IF c = 0 THEN <<>> ELSE <<c>>)
    ELSE LET t == a[i] * n + c
         IN  <<t % Base>> \o MulSmallFrom(a, n, i + 1, t \div Base)

BMulSmall(a, n) == IF n = 0 THEN <<>> ELSE MulSmallFrom(a, n, 1, 0)

\* The sum of the products a[i] * b[k + 1 - i] over the positions i and up.
RECURSIVE Conv(_, _, _, _)
Conv(a, b, k, i) ==
    IF i > Len(a) \/ i > k THEN 0
    ELSE a[i] * Limb(b, k + 1 - i) + Conv(a, b, k, i + 1)

\* The limbs from position k on of a * b, c the carry into position k.
RECURSIVE MulFrom(_, _, _, _)
MulFrom(a, b, k, c) ==
    IF k > Len(a) + Len(b) - 1
    THEN (IF c = 0 THEN <<>> ELSE <<c % Base>> \o MulFrom(a, b, k, c \div Base))
    ELSE LET t == Conv(a, b, k, Max(1, k + 1 - Len(b))) + c
         IN  <<t % Base>> \o MulFrom(a, b, k + 1, t \div Base)

BMul(a, b) == IF a = <<>> \/ b = <<>> THEN <<>> ELSE MulFrom(a, b, 1, 0)

RECURSIVE BCmpAt(_, _, _)
BCmpAt(a, b, i) ==
    IF i = 0 THEN 0
    ELSE IF a[i] # b[i] THEN (IF a[i] < b[i] THEN -1 ELSE 1)
    ELSE BCmpAt(a, b, i - 1)

\* -1, 0 or 1 as a < b, a = b or a > b.
BCmp(a, b) ==
    IF Len(a) # Len(b) THEN (IF Len(a) < Len(b) THEN -1 ELSE 1)
    ELSE BCmpAt(a, b, Len(a))

RECURSIVE SmallBitLen(_)
SmallBitLen(n) == IF n = 0 THEN 0 ELSE 1 + SmallBitLen(n \div 2)

BitLen(a) ==
    IF a = <<>> THEN 0 ELSE LimbBits * (Len(a) - 1) + SmallBitLen(a[Len(a)])

RECURSIVE Zeros(_)
Zeros(n) == IF n <= 0 THEN <<>> ELSE <<0>> \o Zeros(n - 1)

\* a * 2^k
BShl(a, k) ==
    IF a = <<>> THEN a
    ELSE Zeros(k \div LimbBits) \o BMulSmall(a, Pow2[k % LimbBits])

\* The limbs from position i on of a \div 2^r, r below LimbBits.
RECURSIVE ShrFrom(_, _, _)
ShrFrom(a, r, i) ==
    IF i > Len(a) THEN <<>>
    ELSE <<(a[i] \div Pow2[r]) + (Limb(a, i + 1) % Pow2[r]) * Pow2[LimbBits - r]>>
         \o ShrFrom(a, r, i + 1)

\* a \div 2^k
BShr(a, k) == Trim(ShrFrom(a, k % LimbBits, (k \div LimbBits) + 1))

\* Bit k of a, bit 0 the least significant.
BBit(a, k) == (Limb(a, (k \div LimbBits) + 1) \div Pow2[k % LimbBits]) % 2

\* Some bit of a below bit k is set.
BLowBits(a, k) ==
    \/ \E i \in 1..Min(k \div LimbBits, Len(a)) : a[i] # 0
    \/ Limb(a, (k \div LimbBits) + 1) % Pow2[k % LimbBits] # 0

BOdd(a) == a # <<>> /\ a[1] % 2 = 1

\* 2*a + bit
BDbl(a, bit) == IF a = <<>> THEN (IF bit = 0 THEN <<>> ELSE <<1>>)
                ELSE MulSmallFrom(a, 2, 1, bit)

\* One limb of a quotient: the greatest q with q * d <= u, for u < d * Base
\* and the top limb of d at least Base / 2.  The estimate from the leading
\* limbs is at most two too large.
QuotTop(u, d) ==
    IF Len(u) > Len(d) THEN u[Len(u)] * Base + u[Len(u) - 1] ELSE u[Len(u)]

QuotFrom(u, d, qh) ==
    IF BCmp(BMulSmall(d, qh), u) <= 0 THEN qh
    ELSE IF BCmp(BMulSmall(d, qh - 1), u) <= 0 THEN qh - 1
    ELSE qh - 2

QuotLimb(u, d) ==
    IF BCmp(u, d) < 0 THEN 0
    ELSE QuotFrom(u, d, Min(Base - 1, QuotTop(u, d) \div d[Len(d)]))

\* Long division of n by d, one limb of the quotient at a time, from the
\* limb of n at position i up: the limbs of n above the first quotient limb
\* are fewer than those of d and start the remainder.
\* The limb q goes below the quotient quot, and leaves the remainder of u.
DivLimb(d, quot, u, q) ==
    [quot |-> <<q>> \o quot, rem |-> BSub(u, BMulSmall(d, q))]

\* One step down: the limb of n joins the remainder up.rem from below.
DivStep(limb, d, up) ==
    DivLimb(d, up.quot, Trim(<<limb>> \o up.rem),
            QuotLimb(Trim(<<limb>> \o up.rem), d))

RECURSIVE DivFrom(_, _, _)
DivFrom(n, d, i) ==
    IF i > Len(n) - Len(d) + 1
    THEN [quot |-> <<>>, rem |-> SubSeq(n, Max(i, 1), Len(n))]
    ELSE DivStep(n[i], d, DivFrom(n, d, i + 1))

\* Quotient and remainder of n by d, both shifted left by sh bits to bring
\* the top limb of d to at least Base / 2.
DivShifted(n, d, sh) == DivFrom(BShl(n, sh), BShl(d, sh), 1)
DivUnshift(qr, sh) == [quot |-> Trim(qr.quot), rem |-> BShr(qr.rem, sh)]
DivNormal(n, d, sh) == DivUnshift(DivShifted(n, d, sh), sh)

\* Quotient and remainder of n by d, d not zero.
BDivMod(n, d) == DivNormal(n, d, LimbBits - SmallBitLen(d[Len(d)]))

\* Newton's iteration for the integer square root of n, from an estimate r
\* that is not below it: the iteration decreases down to the root.
SqrtStep(n, r) == BShr(BAdd(r, BDivMod(n, r).quot), 1)

RECURSIVE SqrtFrom(_, _, _)
SqrtFrom(n, r, r1) ==
    IF BCmp(r1, r) >= 0 THEN r ELSE SqrtFrom(n, r1, SqrtStep(n, r1))

SqrtFromEstimate(n, r) == SqrtFrom(n, r, SqrtStep(n, r))
RootOf(n, root) == [root |-> root, exact |-> BMul(root, root) = n]

\* The integer square root of n and whether it is exact.
BISqrt(n) ==
    RootOf(n, SqrtFromEstimate(n, BShl(BOne, (BitLen(n) + 1) \div 2)))

BSquare(a) == BMul(a, a)

\* 5^n, by squaring.
RECURSIVE BPow5(_)
BPow5(n) ==
    IF n <= 0 THEN BOne
    ELSE IF n % 2 = 1 THEN BMulSmall(BPow5(n - 1), 5)
    ELSE BSquare(BPow5(n \div 2))

\* The number written in decimal as the groups of four digits ds, after the
\* digits already in acc.
RECURSIVE BFromDec(_, _)
BFromDec(ds, acc) ==
    IF ds = <<>> THEN acc
    ELSE BFromDec(Tail(ds), BAdd(BMulSmall(acc, 10000), FromInt(Head(ds))))

(***************************************************************************)
(* binary64 numbers                                                        *)
(***************************************************************************)
Zero == [k |-> "fin", s |-> 1, m |-> <<>>, e |-> 0]
NegZero == [k |-> "fin", s |-> -1, m |-> <<>>, e |-> 0]
NaN  == [k |-> "nan", s |-> 1, m |-> <<>>, e |-> 0]
Inf(sgn) == [k |-> "inf", s |-> sgn, m |-> <<>>, e |-> 0]
SignedZero(sgn) == IF sgn = 1 THEN Zero ELSE NegZero

IsFin(x) == x.k = "fin"
IsNaN(x) == x.k = "nan"
IsInf(x) == x.k = "inf"
IsZero(x) == x.k = "fin" /\ x.m = <<>>

\* The binary64 number of significand m and exponent e, m of at most
\* Precision bits: zero, a finite number, or an infinity on overflow.
Finish(sgn, m, e) ==
    IF m = <<>> THEN SignedZero(sgn)
    ELSE IF e > EMax THEN Inf(sgn)
    ELSE [k |-> "fin", s |-> sgn, m |-> m, e |-> e]

\* n \div 2^sh rounded to the nearest natural number, a tie going to the
\* even one, for sh >= 1.
RoundShr(n, sh) ==
    IF BBit(n, sh - 1) = 1 /\ (BLowBits(n, sh - 1) \/ BOdd(BShr(n, sh)))
    THEN BAdd(BShr(n, sh), BOne)
    ELSE BShr(n, sh)

\* The binary64 number of a rounded significand q at the exponent et: the
\* rounding may have carried into bit Precision.
Carried(sgn, q, et) ==
    IF BitLen(q) > Precision THEN Finish(sgn, BShr(q, 1), et + 1)
    ELSE Finish(sgn, q, et)

\* The binary64 number nearest to sgn * n * 2^ex, n not zero, at the
\* exponent et of its significand.
FltAt(sgn, n, ex, et) ==
    IF et <= ex THEN Finish(sgn, BShl(n, ex - et), et)
    ELSE Carried(sgn, RoundShr(n, et - ex), et)

\* The binary64 number nearest to sgn * n * 2^ex, n any natural number, a
\* tie going to the even significand (the rounding of IEEE 754).
Flt(sgn, n, ex) ==
    IF n = <<>> THEN SignedZero(sgn)
    ELSE FltAt(sgn, n, ex, Max(ex + BitLen(n) - Precision, EMin))

\* The quotient of a division with a last bit that is set when the division
\* left a remainder.
QuotSticky(qr) == BDbl(qr.quot, IF qr.rem = <<>> THEN 0 ELSE 1)

\* The binary64 number nearest to sgn * (n / d) * 2^ex, the quotient taken
\* of n * 2^k.
FltQuotAt(sgn, n, d, ex, k) ==
    Flt(sgn, QuotSticky(BDivMod(BShl(n, k), d)), ex - k - 1)

\* The binary64 number nearest to sgn * (n / d) * 2^ex.
FltQuot(sgn, n, d, ex) ==
    FltQuotAt(sgn, n, d, ex, Max(0, Precision + 3 + BitLen(d) - BitLen(n)))

Abs(n) == IF n < 0 THEN -n ELSE n

\* The binary64 number nearest to the decimal number sgn * n * 10^ex, n a
\* natural number below 10^16 (what float() makes of a literal).  10^ex is
\* 5^ex * 2^ex; beyond 10^308 the number is an infinity, and below 10^-340
\* it is zero.
DecLit(sgn, n, ex) ==
    IF n = <<>> THEN SignedZero(sgn)
    ELSE IF ex > 308 THEN Inf(sgn)
    ELSE IF ex < -340 THEN SignedZero(sgn)
    ELSE IF ex >= 0 THEN Flt(sgn, BMul(BPow5(ex), n), ex)
    ELSE FltQuot(sgn, n, BPow5(-ex), ex)

\* A decimal literal n * 10^ex, n any integer of the machine word.
Lit(n, ex) == DecLit(IF n < 0 THEN -1 ELSE 1, FromInt(Abs(n)), ex)

FNeg(x) == IF IsNaN(x) THEN x ELSE [x EXCEPT !.s = -x.s]
FAbs(x) == IF IsNaN(x) THEN x ELSE [x EXCEPT !.s = 1]

\* Magnitude order of two finite numbers: -1, 0, 1.
MagCmp(x, y) ==
    IF x.m = <<>> THEN (IF y.m = <<>> THEN 0 ELSE -1)
    ELSE IF y.m = <<>> THEN 1
    ELSE IF x.e # y.e THEN (IF x.e < y.e THEN -1 ELSE 1)
    ELSE BCmp(x.m, y.m)

\* x < y, false when either is not-a-number.
FLt(x, y) ==
    IF IsNaN(x) \/ IsNaN(y) THEN FALSE
    ELSE IF IsInf(x) THEN x.s = -1 /\ ~(IsInf(y) /\ y.s = -1)
    ELSE IF IsInf(y) THEN y.s = 1
    ELSE IF IsZero(x) THEN ~IsZero(y) /\ y.s = 1
    ELSE IF IsZero(y) THEN x.s = -1
    ELSE IF x.s # y.s THEN x.s = -1
    ELSE IF x.s = 1 THEN MagCmp(x, y) = -1 ELSE MagCmp(x, y) = 1

FEq(x, y) == ~IsNaN(x) /\ ~IsNaN(y) /\ (x = y \/ (IsZero(x) /\ IsZero(y)))
FLe(x, y) == FLt(x, y) \/ FEq(x, y)
FGe(x, y) == FLe(y, x)
FGt(x, y) == FLt(y, x)

\* x + y of two finite numbers, neither zero, the exponent of x not below
\* that of y.
Exact(sgn, m, e) == [s |-> sgn, m |-> m, e |-> e]

\* y is below a quarter of the last place of x: one unit three bits below
\* the significand of x stands for it.
FarSum(x, y) ==
    Exact(x.s, IF x.s = y.s THEN BAdd(BShl(x.m, 3), BOne)
               ELSE BSub(BShl(x.m, 3), BOne), x.e - 3)

\* The exact sum, a the significand of x at the exponent of y.
NearSum(x, y, a) ==
    IF x.s = y.s THEN Exact(x.s, BAdd(a, y.m), y.e)
    ELSE IF BCmp(a, y.m) >= 0 THEN Exact(x.s, BSub(a, y.m), y.e)
    ELSE Exact(y.s, BSub(y.m, a), y.e)

SumMag(x, y) ==
    IF x.e - y.e > Precision + 11 THEN FarSum(x, y)
    ELSE NearSum(x, y, BShl(x.m, x.e - y.e))

\* The binary64 number of an exact sum: a sum of zero is the positive zero.
RoundSum(t) == IF t.m = <<>> THEN Zero ELSE Flt(t.s, t.m, t.e)

AddMag(x, y) == RoundSum(SumMag(x, y))

FAdd(x, y) ==
    IF IsNaN(x) \/ IsNaN(y) THEN NaN
    ELSE IF IsInf(x) THEN (IF IsInf(y) /\ y.s # x.s THEN NaN ELSE x)
    ELSE IF IsInf(y) THEN y
    ELSE IF IsZero(x) THEN (IF IsZero(y) /\ x.s # y.s THEN Zero ELSE y)
    ELSE IF IsZero(y) THEN x
    ELSE IF x.e >= y.e THEN AddMag(x, y) ELSE AddMag(y, x)

FSub(x, y) == FAdd(x, FNeg(y))

FMul(x, y) ==
    IF IsNaN(x) \/ IsNaN(y) THEN NaN
    ELSE IF IsInf(x) \/ IsInf(y)
         THEN (IF IsZero(x) \/ IsZero(y) THEN NaN ELSE Inf(x.s * y.s))
    ELSE Flt(x.s * y.s, BMul(x.m, y.m), x.e + y.e)

FDiv(x, y) ==
    IF IsNaN(x) \/ IsNaN(y) THEN NaN
    ELSE IF IsInf(x) THEN (IF IsInf(y) THEN NaN ELSE Inf(x.s * y.s))
    ELSE IF IsInf(y) THEN SignedZero(x.s * y.s)
    ELSE IF IsZero(y) THEN (IF IsZero(x) THEN NaN ELSE Inf(x.s * y.s))
    ELSE IF IsZero(x) THEN SignedZero(x.s * y.s)
    ELSE FltQuot(x.s * y.s, x.m, y.m, x.e - y.e)

\* The binary64 number next below or equal to n * 2^ex, n not zero, at the
\* exponent et of its significand.
FltDown(n, ex, et) ==
    IF et <= ex THEN Finish(1, BShl(n, ex - et), et)
    ELSE Finish(1, BShr(n, et - ex), et)

\* The binary64 number next above or equal to n * 2^ex, n not zero, at the
\* exponent et of its significand.
FltUp(n, ex, et) ==
    IF et <= ex THEN Finish(1, BShl(n, ex - et), et)
    ELSE IF BLowBits(n, et - ex)
         THEN Carried(1, BAdd(BShr(n, et - ex), BOne), et)
         ELSE Finish(1, BShr(n, et - ex), et)

\* The binary64 numbers a result of n * 2^ex with an error below one unit
\* in the last place can be: the number itself where it is a binary64
\* number, and else the two binary64 numbers on either side of it.
Faithful(n, ex, et) == {FltDown(n, ex, et), FltUp(n, ex, et)}
FaithfulOf(n, ex) == Faithful(n, ex, Max(ex + BitLen(n) - Precision, EMin))

\* x ** 4 of a numpy array: the pow of the C library.  Its result has an
\* error below one unit in the last place and is not always the nearest
\* binary64 number; which of the two numbers around the exact fourth power
\* it is depends on the library, so the operator gives both.
FPow4(x) ==
    IF IsNaN(x) THEN {NaN}
    ELSE IF IsInf(x) THEN {Inf(1)}
    ELSE IF IsZero(x) THEN {Zero}
    ELSE FaithfulOf(BSquare(BSquare(x.m)), 4 * x.e)

\* The results of the two pow of one evaluation, of outer_diam / 2 and of
\* inner_diam / 2: pow is a function, so equal arguments have equal results.
Pow4Pairs(outer_half, inner_half) ==
    IF outer_half = inner_half
    THEN {<<p, p>> : p \in FPow4(outer_half)}
    ELSE FPow4(outer_half) \X FPow4(inner_half)

\* The root of a square-root extraction with a last bit that is set when
\* the root is not exact.
RootSticky(sr) == BDbl(sr.root, IF sr.exact THEN 0 ELSE 1)

\* The least shift from k0 on that leaves x an even exponent.
EvenShift(x, k0) == k0 + ((x.e - k0) % 2)

\* The square root of a positive finite x, taken of its significand
\* shifted left by k bits.
SqrtAt(x, k) == Flt(1, RootSticky(BISqrt(BShl(x.m, k))), ((x.e - k) \div 2) - 1)

\* np.sqrt
FSqrt(x) ==
    IF IsNaN(x) THEN NaN
    ELSE IF IsZero(x) THEN x
    ELSE IF x.s = -1 THEN NaN
    ELSE IF IsInf(x) THEN x
    ELSE SqrtAt(x, EvenShift(x, Max(0, 2 * Precision + 5 - BitLen(x.m))))

\* numpy's rint: the nearest integer, a tie going to the even one.
RInt(x) ==
    IF ~IsFin(x) \/ IsZero(x) \/ x.e >= 0 THEN x
    ELSE Flt(x.s, RoundShr(x.m, -x.e), 0)

\* Mutant of round: the digits beyond ndigits are cut off.
round_cut(x, ndigits) ==
    LET y == FMul(x, Lit(1, ndigits))
        t == IF ~IsFin(y) \/ IsZero(y) \/ y.e >= 0 THEN y
             ELSE Flt(y.s, BShr(y.m, -y.e), 0)
    IN  FDiv(t, Lit(1, ndigits))

\* round(x, ndigits) of a numpy float64: x times 10^ndigits, rounded to the
\* nearest integer and divided by 10^ndigits; an infinity or a
\* not-a-number comes out as it went in.
round(x, ndigits) ==
    FDiv(RInt(FMul(x, Lit(1, ndigits))), Lit(1, ndigits))

\* np.pi, the binary64 number nearest to 3.141592653589793.
PI == DecLit(1, BFromDec(<<3141, 5926, 5358, 9793>>, <<>>), -15)

(***************************************************************************)
(* _TubeComponent                                                          *)
(***************************************************************************)
\* The literals of setup and compute.
inner_diam_val == Lit(60, -3)
outer_diam_val == Lit(100, -3)
inner_diam_lower == Lit(5, -3)
inner_diam_upper == Lit(5, -1)
outer_diam_lower == Lit(1, -2)
outer_diam_upper == Lit(6, -1)
output_val == Lit(1, 0)
ratio_lower == Lit(2, 0)
ratio_upper == Lit(25, 0)
mm_per_m == Lit(1000, 0)
quarter == Lit(25, -2)
two == Lit(2, 0)
four == Lit(4, 0)
one == Lit(1, 0)
stress_floor == Lit(1, -3)
tensile_yield == Lit(350, 6)

NoBound == [lower |-> Inf(-1), upper |-> Inf(1)]

\* _TubeComponent.__init__
TubeComponent(axial_force, bending_moment, thickness_lower_bound, safety_margin_lower_bound) ==
    [axial_force               |-> axial_force,
     bending_moment            |-> bending_moment,
     thickness_lower_bound     |-> thickness_lower_bound,
     safety_margin_lower_bound |-> safety_margin_lower_bound]

\* The declarations of setup: the two inputs at their initial values, the
\* design-variable bounds, the outputs (at an output's default value), the
\* constraints and the objective.
setup_declarations(comp) ==
    [comp        |-> comp,
     inputs      |-> [inner_diam |-> inner_diam_val, outer_diam |-> outer_diam_val],
     desvars     |-> [inner_diam |-> [lower |-> inner_diam_lower,
                                      upper |-> inner_diam_upper],
                      outer_diam |-> [lower |-> outer_diam_lower,
                                      upper |-> outer_diam_upper]],
     outputs     |-> [area                |-> output_val,
                      thickness           |-> output_val,
                      safety_margins      |-> output_val,
                      diam_over_thickness |-> output_val],
     constraints |-> [thickness           |->
                          [NoBound EXCEPT !.lower =
                               FDiv(comp.thickness_lower_bound, mm_per_m)],
                      safety_margins      |->
                          [NoBound EXCEPT !.lower = comp.safety_margin_lower_bound],
                      diam_over_thickness |->
                          [lower |-> ratio_lower, upper |-> ratio_upper]],
     objective   |-> "area"]

\* Mutant of setup: the two lower bounds are taken from each other's
\* parameter.
setup_swapped(comp) ==
    [setup_declarations(comp) EXCEPT
        !.constraints.thickness.lower =
            FDiv(comp.safety_margin_lower_bound, mm_per_m),
        !.constraints.safety_margins.lower = comp.thickness_lower_bound]

\* Mutant of setup: the minimum thickness is not converted from mm to m.
setup_unconverted(comp) ==
    [setup_declarations(comp) EXCEPT
        !.constraints.thickness.lower = comp.thickness_lower_bound]

\* Mutant of setup: the ratio has its upper bound only.
setup_ratio_upper_only(comp) ==
    [setup_declarations(comp) EXCEPT
        !.constraints.diam_over_thickness.lower = Inf(-1)]

\* _TubeComponent.setup
setup(comp) == setup_declarations(comp)

\* Mutant of area_of: the two squares are subtracted the other way round.
area_of_reversed(inner_diam, outer_diam) ==
    FMul(FMul(quarter, PI),
         FSub(FMul(inner_diam, inner_diam), FMul(outer_diam, outer_diam)))

\* The area of the section.
area_of(inner_diam, outer_diam) ==
    FMul(FMul(quarter, PI),
         FSub(FMul(outer_diam, outer_diam), FMul(inner_diam, inner_diam)))

\* Mutant of thickness_of: the difference of the diameters is not halved.
thickness_of_unhalved(inner_diam, outer_diam) == FSub(outer_diam, inner_diam)

\* The wall thickness.
thickness_of(inner_diam, outer_diam) ==
    FDiv(FSub(outer_diam, inner_diam), two)

\* The quantities compute derives at a design point, one operator for each
\* line of compute.
diam_over_thickness_of(inner_diam, outer_diam) ==
    FDiv(outer_diam, thickness_of(inner_diam, outer_diam))

\* pw holds the results of the two pow of the line, (outer_diam / 2) ** 4
\* and (inner_diam / 2) ** 4.
moment_of_inertia_of(pw) == FMul(FDiv(PI, four), FSub(pw[1], pw[2]))

radius_of(outer_diam) == FDiv(outer_diam, two)

axial_stress_of(comp, inner_diam, outer_diam) ==
    FDiv(comp.axial_force, area_of(inner_diam, outer_diam))

bending_stress_of(comp, outer_diam, pw) ==
    FDiv(FMul(comp.bending_moment, radius_of(outer_diam)),
         moment_of_inertia_of(pw))

\* x**2 of numpy: the square x * x.
square(x) == FMul(x, x)

tensile_stress_of(comp, inner_diam, outer_diam, pw) ==
    FSqrt(FAdd(square(FAdd(axial_stress_of(comp, inner_diam, outer_diam),
                           bending_stress_of(comp, outer_diam, pw))),
               stress_floor))

safety_margin_of(comp, inner_diam, outer_diam, pw) ==
    FSub(FDiv(tensile_yield,
              tensile_stress_of(comp, inner_diam, outer_diam, pw)),
         one)

\* The quantities of compute at a design point, for the results pw of the
\* two pow.
tube_values(comp, inputs, pw) ==
    [area                |-> area_of(inputs.inner_diam, inputs.outer_diam),
     thickness           |-> thickness_of(inputs.inner_diam, inputs.outer_diam),
     safety_margin       |->
         safety_margin_of(comp, inputs.inner_diam, inputs.outer_diam, pw),
     diam_over_thickness |->
         diam_over_thickness_of(inputs.inner_diam, inputs.outer_diam)]

None == [k |-> "none"]

\* An argument of optimize the caller leaves out.
Default == [k |-> "default"]
Param(given, default) == IF given = Default THEN default ELSE given

\* TubeOptimization.__init__
TubeOptimization(axial_force, bending_moment) ==
    [axial_force |-> axial_force, bending_moment |-> bending_moment]

\* The default values of the arguments of optimize.
minimim_safety_margin_default == Zero
minimum_thickness_default == Lit(1, 0)

(***************************************************************************)
(* Inputs                                                                  *)
(***************************************************************************)
Pt(i, o) == [inner_diam |-> i, outer_diam |-> o]

\* The binary64 number next above a positive finite x.
NextUp(x) == Flt(1, BAdd(x.m, BOne), x.e)
Arg(s, t) == [minimim_safety_margin |-> s, minimum_thickness |-> t]

\* The load cases: the example of the program (10 kN, 5 kN m), no load, and
\* a bending moment no tube of the design space carries.
LoadSeq == << TubeOptimization(Lit(10, 3), Lit(5, 3)),
              TubeOptimization(Zero, Zero),
              TubeOptimization(Zero, Lit(1, 9)) >>
LoadCases == {LoadSeq[n] : n \in 1..Len(LoadSeq)}
LoadAt(o) == LoadSeq[((o - 1) % Len(LoadSeq)) + 1]

\* Arguments of optimize: none, the example of the program, a
\* minimum thickness that is no multiple of 0.001 mm, and minimum
\* thicknesses of zero and below.
ArgCases == { Arg(Default, Default), Arg(Lit(5, -2), Lit(3, 0)),
              Arg(Zero, Lit(10004, -4)), Arg(Zero, Zero), Arg(Zero, Lit(-1, 0)) }

\* Trial points of the optimizer, in metres.
TrialPoints ==
    { Pt(Lit(8, -3), Lit(10, -3)),            \* thickness 1 mm, ratio 10
      Pt(Lit(78, -3), Lit(85, -3)),           \* thickness 3.5 mm
      Pt(Lit(79992, -7), Lit(10, -3)),        \* thickness 1.0004 mm
      Pt(Lit(79994, -7), Lit(10, -3)),        \* thickness 1.0003 mm
      Pt(Lit(100006, -7), Lit(200004, -7)),   \* thickness 4.9999 mm
      Pt(Lit(2226145, -7), Lit(3081595, -7)), \* all three lengths on a tie
      Pt(Lit(6, -2), Lit(3868, -4)),          \* pow not rounded to nearest
      Pt(Lit(1, -1), Lit(1, -1)),             \* thickness 0
      Pt(Lit(11, -3), Lit(10, -3)),           \* thickness -0.5 mm
      Pt(Lit(4, -3), Lit(7, -1)) }            \* outside the bounds

\* The smaller sets of the specification with concurrent calls.
ArgCasesLean == { Arg(Lit(5, -2), Lit(3, 0)) }
TrialPointsLean == { Pt(Lit(78, -3), Lit(85, -3)) }

\* Components and points of the evaluations of the structural model alone.
ProbeComps ==
    { TubeComponent(LoadSeq[n].axial_force, LoadSeq[n].bending_moment,
                    Lit(1, 0), Zero) : n \in 1..2 }
ProbePoints ==
    { Pt(i, o) : i \in { Lit(6, -2), Lit(3, -1), Lit(1, 200) },
                 o \in { Lit(1, -1), Lit(213, -3), NextUp(Lit(213, -3)),
                         Lit(3, -1), Lit(2, 200) } }

\* compute is a pure function of the component and the point, up to the
\* results of pow: compute_at gives the outputs it can write, one for each
\* pair of results of the two pow.  The outputs at the components and points
\* of the specifications are evaluated once and kept; compute looks them up
\* and evaluates any other point directly.
TableComps ==
    ProbeComps \union
    { TubeComponent(l.axial_force, l.bending_moment,
                    Param(a.minimum_thickness, minimum_thickness_default),
                    Param(a.minimim_safety_margin, minimim_safety_margin_default)) :
          l \in LoadCases, a \in ArgCases \union ArgCasesLean }
TablePoints ==
    TrialPoints \union TrialPointsLean \union ProbePoints
        \union { Pt(inner_diam_val, outer_diam_val) }
outputs_of(v) ==
    [area                |-> v.area,
     thickness           |-> v.thickness,
     safety_margins      |-> v.safety_margin,
     diam_over_thickness |-> v.diam_over_thickness]
compute_at(comp, inputs) ==
    { outputs_of(tube_values(comp, inputs, pw)) :
          pw \in Pow4Pairs(FDiv(inputs.outer_diam, two),
                           FDiv(inputs.inner_diam, two)) }
compute_table ==
    [cp \in TableComps \X TablePoints |-> compute_at(cp[1], cp[2])] @@ << >>

\* Mutant of compute: a point without a positive thickness is rejected and
\* no output is written.
compute_guarded(comp, inputs) ==
    { IF FLe(out.thickness, Zero) THEN [error |-> "ValueError"] ELSE out :
          out \in compute_at(comp, inputs) }

\* The value kept in a table under a key, or else the value given.
kept(table, key, value) == IF key \in DOMAIN table THEN table[key] ELSE value

\* _TubeComponent.compute: the four outputs at a design point.
compute(comp, inputs) ==
    kept(compute_table, <<comp, inputs>>, compute_at(comp, inputs))

(***************************************************************************)
(* TubeOptimization and the calls of optimize                              *)
(*                                                                         *)
(* objs[o] is a TubeOptimization object.  Every call c of optimize has its *)
(* position pc[c], the object self[c] it was called on, its arguments      *)
(* args[c], the problem[c] it built, the flag[c] run_driver returned and   *)
(* the value result[c] it returned.                                        *)
(*                                                                         *)
(* run_driver is the optimizer of the library, not code of the program.    *)
(* It is modelled by what the specification says of it: it evaluates the   *)
(* model at the initial point, then at trial points inside the registered  *)
(* design-variable bounds, as often as it likes, and returns either        *)
(* success, only at a point where every registered constraint holds within *)
(* the solver tolerance (the relative 1e-4), or failure, at any point it   *)
(* has reached.                                                            *)
(***************************************************************************)
NumCalls == 2
NumObjs == 2

CallIds == 1..NumCalls
ObjIds == 1..NumObjs

VARIABLES objs, pc, self, args, problem, flag, result, prev, cur

vars == <<objs, pc, self, args, problem, flag, result, prev, cur>>

\* A design point the optimizer may try lies inside the registered bounds.
InBounds(p, point) ==
    /\ FLe(p.desvars.inner_diam.lower, point.inner_diam)
    /\ FLe(point.inner_diam, p.desvars.inner_diam.upper)
    /\ FLe(p.desvars.outer_diam.lower, point.outer_diam)
    /\ FLe(point.outer_diam, p.desvars.outer_diam.upper)

\* The tolerance within which the solver takes a constraint to hold.
solver_tolerance == Lit(1, -4)

\* x lowered, and raised, by the relative solver tolerance.
RelLow(x) == FSub(x, FMul(solver_tolerance, FAbs(x)))
RelHigh(x) == FAdd(x, FMul(solver_tolerance, FAbs(x)))

\* Every registered constraint holds at the outputs of the problem, within
\* the solver tolerance.
Feasible(p) ==
    \A name \in DOMAIN p.constraints :
        /\ FLe(RelLow(p.constraints[name].lower), p.outputs[name])
        /\ FLe(p.outputs[name], RelHigh(p.constraints[name].upper))

\* problem.get_val(name, units='mm') of a length held in metres.
get_val_mm(x) == FMul(x, mm_per_m)

\* The four numbers optimize reads back from the inputs and the outputs of
\* the final problem.
read_values(inputs, outputs) ==
    << round(get_val_mm(inputs.inner_diam), 3),
       round(get_val_mm(inputs.outer_diam), 3),
       round(get_val_mm(outputs.thickness), 3),
       round(outputs.safety_margins, 4) >>

\* The read-back is a pure function of the inputs and the outputs: its
\* values at the points of the specifications are evaluated once and
\* kept, and any other point is evaluated directly.
read_back_table ==
    [io \in UNION { {<<cp[2], out>> : out \in compute_table[cp]} :
                        cp \in DOMAIN compute_table }
        |-> read_values(io[1], io[2])] @@ << >>

read_back(p) ==
    kept(read_back_table, <<p.inputs, p.outputs>>,
         read_values(p.inputs, p.outputs))

\* Mutant of optimize_return: the flag is returned as it is.
optimize_return_raw_flag(fl, p) == << fl, read_back(p) >>

\* Mutant of optimize_return: after a failure the numbers are left at zero.
optimize_return_zero_on_failure(fl, p) ==
    << ~fl, IF fl THEN <<Zero, Zero, Zero, Zero>> ELSE read_back(p) >>

\* The value optimize returns from the flag and the final problem.
optimize_return(fl, p) == << ~fl, read_back(p) >>

\* The problem optimize builds: a tube component made from the object's
\* loads and the two arguments (0 and 1 mm when left out), and set up.
optimize_problem(obj, minimim_safety_margin, minimum_thickness) ==
    setup(TubeComponent(obj.axial_force,
                        obj.bending_moment,
                        Param(minimum_thickness, minimum_thickness_default),
                        Param(minimim_safety_margin, minimim_safety_margin_default)))

\* Mutant of Optimize_Setup: one problem is kept and used again by the next
\* call.
Optimize_Setup_Reused(c, o, minimim_safety_margin, minimum_thickness) ==
    /\ pc[c] = "idle"
    /\ pc' = [pc EXCEPT ![c] = "setup"]
    /\ self' = [self EXCEPT ![c] = o]
    /\ args' = [args EXCEPT ![c] =
                   [minimim_safety_margin |-> minimim_safety_margin,
                    minimum_thickness     |-> minimum_thickness]]
    /\ problem' = [problem EXCEPT ![c] =
                      IF \E d \in CallIds : pc[d] # "idle"
                      THEN problem[CHOOSE d \in CallIds : pc[d] # "idle"]
                      ELSE optimize_problem(objs[o], minimim_safety_margin,
                                            minimum_thickness)]
    /\ UNCHANGED <<objs, flag, result, prev, cur>>

\* optimize up to run_driver.
Optimize_Setup(c, o, minimim_safety_margin, minimum_thickness) ==
    /\ pc[c] = "idle"
    /\ pc' = [pc EXCEPT ![c] = "setup"]
    /\ self' = [self EXCEPT ![c] = o]
    /\ args' = [args EXCEPT ![c] =
                   [minimim_safety_margin |-> minimim_safety_margin,
                    minimum_thickness     |-> minimum_thickness]]
    /\ problem' = [problem EXCEPT ![c] =
                      optimize_problem(objs[o], minimim_safety_margin,
                                       minimum_thickness)]
    /\ UNCHANGED <<objs, flag, result, prev, cur>>

\* run_driver starts: the model is evaluated at the initial point.
Driver_Start(c) ==
    /\ pc[c] = "setup"
    /\ pc' = [pc EXCEPT ![c] = "driver"]
    /\ \E out \in compute(problem[c].comp, problem[c].inputs) :
           problem' = [problem EXCEPT ![c].outputs = out]
    /\ UNCHANGED <<objs, self, args, flag, result, prev, cur>>

\* run_driver moves to another trial point and evaluates the model there.
Driver_Step(c, point) ==
    /\ pc[c] = "driver"
    /\ InBounds(problem[c], point)
    /\ \E out \in compute(problem[c].comp, point) :
           problem' = [problem EXCEPT ![c].inputs = point, ![c].outputs = out]
    /\ UNCHANGED <<objs, pc, self, args, flag, result, prev, cur>>

\* run_driver returns its failure indicator.
Driver_Return(c, fail) ==
    /\ pc[c] = "driver"
    /\ ~fail => Feasible(problem[c])
    /\ pc' = [pc EXCEPT ![c] = "extract"]
    /\ flag' = [flag EXCEPT ![c] = fail]
    /\ UNCHANGED <<objs, self, args, problem, result, prev, cur>>

\* optimize after run_driver: the read-back, the rounding and the return.
Optimize_Return(c) ==
    /\ pc[c] = "extract"
    /\ pc' = [pc EXCEPT ![c] = "returned"]
    /\ result' = [result EXCEPT ![c] = optimize_return(flag[c], problem[c])]
    /\ UNCHANGED <<objs, self, args, problem, flag, prev, cur>>

\* One evaluation of the structural model, outside any optimization: the
\* last two evaluations are kept.
Evaluate(comp, point) ==
    /\ prev' = cur
    /\ \E out \in compute(comp, point) :
           cur' = [comp |-> comp, inputs |-> point, outputs |-> out]
    /\ UNCHANGED <<objs, pc, self, args, problem, flag, result>>


(***************************************************************************)
(* Specifications                                                          *)
(***************************************************************************)
InitCalls ==
    /\ pc = [c \in CallIds |-> "idle"]
    /\ self = [c \in CallIds |-> 0]
    /\ args = [c \in CallIds |-> None]
    /\ problem = [c \in CallIds |-> None]
    /\ flag = [c \in CallIds |-> FALSE]
    /\ result = [c \in CallIds |-> None]
    /\ prev = None
    /\ cur = None

\* Concurrent calls of optimize on the objects.
Init ==
    /\ objs = [o \in ObjIds |-> LoadAt(o)]
    /\ InitCalls

Next ==
    \E c \in CallIds :
        \/ \E o \in ObjIds, a \in ArgCasesLean :
               Optimize_Setup(c, o, a.minimim_safety_margin, a.minimum_thickness)
        \/ Driver_Start(c)
        \/ \E point \in TrialPointsLean : Driver_Step(c, point)
        \/ \E fail \in BOOLEAN : Driver_Return(c, fail)
        \/ Optimize_Return(c)

Spec == Init /\ [][Next]_vars

\* One call of optimize, over all the load cases, arguments and points.
InitOne ==
    /\ objs \in [ObjIds -> LoadCases]
    /\ InitCalls

NextOne ==
    \/ \E o \in ObjIds, a \in ArgCases :
           Optimize_Setup(1, o, a.minimim_safety_margin, a.minimum_thickness)
    \/ Driver_Start(1)
    \/ \E point \in TrialPoints : Driver_Step(1, point)
    \/ \E fail \in BOOLEAN : Driver_Return(1, fail)
    \/ Optimize_Return(1)

SpecOne == InitOne /\ [][NextOne]_vars

\* Evaluations of the structural model alone.
NextCompute ==
    \E comp \in ProbeComps, point \in ProbePoints : Evaluate(comp, point)

SpecCompute == Init /\ [][NextCompute]_vars


(***************************************************************************)
(* Claims                                                                  *)
(***************************************************************************)
Returned(c) == pc[c] = "returned"
Converged(c) == result[c][1]
InnerOf(c) == result[c][2][1]
OuterOf(c) == result[c][2][2]
ThicknessOf(c) == result[c][2][3]
MarginOf(c) == result[c][2][4]
MinThickness(c) == Param(args[c].minimum_thickness, minimum_thickness_default)
MinMargin(c) == Param(args[c].minimim_safety_margin, minimim_safety_margin_default)

HalfStepMm == Lit(5, -4)
HalfStepMargin == Lit(5, -5)

\* x is a multiple of 10^-ndigits: the binary64 number nearest to n /
\* 10^ndigits for a whole number n.
IsMultiple(x, ndigits) ==
    /\ IsFin(x)
    /\ FEq(x, FDiv(RInt(FMul(x, Lit(1, ndigits))), Lit(1, ndigits)))

\* The floating-point error allowed on a value of the size of x: the
\* relative 1e-15.
FpSlack(x) == FMul(Lit(1, -15), FAbs(x))

Within(x, y, d) == FLe(FAbs(FSub(x, y)), d)

\* x raised, and lowered, by the rounding allowance d and the
\* floating-point error.
Raised(x, d) == FAdd(FAdd(x, d), FpSlack(x))
Lowered(x, d) == FSub(FSub(x, d), FpSlack(x))
WithinFp(x, y, d) == FLe(FAbs(FSub(x, y)), FAdd(d, FpSlack(y)))

\* C1 as stated: whenever optimize returns converged = true, the returned
\* thickness is at least minimum_thickness, the returned safety margin at
\* least minimum_safety_margin, and outer_diam / thickness of the returned
\* values lies in [2, 25], each within the relative tolerance 1e-4.
C1_Original ==
    \A c \in CallIds :
        (Returned(c) /\ Converged(c)) =>
            /\ FGe(ThicknessOf(c), RelLow(MinThickness(c)))
            /\ FGe(MarginOf(c), RelLow(MinMargin(c)))
            /\ FGe(FDiv(OuterOf(c), ThicknessOf(c)), RelLow(Lit(2, 0)))
            /\ FLe(FDiv(OuterOf(c), ThicknessOf(c)), RelHigh(Lit(25, 0)))

\* C1 amended: whenever optimize returns converged = true, the returned
\* values satisfy the three constraints within the relative tolerance 1e-4
\* once the rounding of the returned values is allowed for: 0.0005 mm on
\* each returned length and 0.00005 on the returned safety margin (up to
\* the floating-point error, the relative 1e-15).
C1_ConstraintsUpToRounding ==
    \A c \in CallIds :
        (Returned(c) /\ Converged(c)) =>
            /\ FGe(Raised(ThicknessOf(c), HalfStepMm), RelLow(MinThickness(c)))
            /\ FGe(Raised(MarginOf(c), HalfStepMargin), RelLow(MinMargin(c)))
            /\ FGe(Raised(OuterOf(c), HalfStepMm),
                   FMul(RelLow(Lit(2, 0)), Lowered(ThicknessOf(c), HalfStepMm)))
            /\ FLe(Lowered(OuterOf(c), HalfStepMm),
                   FMul(RelHigh(Lit(25, 0)), Raised(ThicknessOf(c), HalfStepMm)))

\* A converged call whose final thickness is below the minimum asked for,
\* inside the solver tolerance, and whose returned thickness is below it by
\* more than the tolerance.
C1_Witness ==
    \E c \in CallIds :
        /\ Returned(c) /\ Converged(c)
        /\ FLt(problem[c].outputs.thickness,
               problem[c].constraints.thickness.lower)
        /\ FLt(ThicknessOf(c), RelLow(MinThickness(c)))

\* C2: the converged flag optimize returns is the negation of the failure
\* indicator run_driver returned.
C2_ConvergedIsNotFlag ==
    \A c \in CallIds : Returned(c) => (Converged(c) <=> ~flag[c])

\* Two returned calls, one after a success and one after a failure.
C2_Witness ==
    \E c, d \in CallIds :
        /\ Returned(c) /\ flag[c] /\ ~Converged(c)
        /\ Returned(d) /\ ~flag[d] /\ Converged(d)

OutputNames == {"area", "thickness", "safety_margins", "diam_over_thickness"}
IsNumber(x) == DOMAIN x = {"k", "s", "m", "e"} /\ x.k \in {"fin", "inf", "nan"}

\* C3: a call whose run failed returns like any other: converged = false,
\* and the four numbers are populated from the last point through the same
\* read-back and rounding as after a success.
C3_FailureStillReturns ==
    \A c \in CallIds :
        (Returned(c) /\ flag[c]) =>
            /\ Converged(c) = FALSE
            /\ \A n \in 1..4 : IsNumber(result[c][2][n])
            /\ InnerOf(c) = round(get_val_mm(problem[c].inputs.inner_diam), 3)
            /\ OuterOf(c) = round(get_val_mm(problem[c].inputs.outer_diam), 3)
            /\ ThicknessOf(c) = round(get_val_mm(problem[c].outputs.thickness), 3)
            /\ MarginOf(c) = round(problem[c].outputs.safety_margins, 4)

\* A call that returned after a failed run at a point that is not feasible.
C3_Witness ==
    \E c \in CallIds : Returned(c) /\ flag[c] /\ ~Feasible(problem[c])

\* C4: the problem of a call optimize(s, t), s = 0 and t = 1 when left out,
\* has exactly the constraints thickness >= t/1000, safety_margins >= s and
\* 2 <= diam_over_thickness <= 25, the objective area and the bounds
\* [0.005, 0.5] on inner_diam and [0.01, 0.6] on outer_diam.
C4_ProblemAsDeclared ==
    \A c \in CallIds :
        pc[c] # "idle" =>
            /\ problem[c].constraints =
                   [thickness           |->
                        [lower |-> FDiv(MinThickness(c), Lit(1000, 0)),
                         upper |-> Inf(1)],
                    safety_margins      |->
                        [lower |-> MinMargin(c), upper |-> Inf(1)],
                    diam_over_thickness |->
                        [lower |-> Lit(2, 0), upper |-> Lit(25, 0)]]
            /\ problem[c].objective = "area"
            /\ problem[c].desvars =
                   [inner_diam |-> [lower |-> Lit(5, -3), upper |-> Lit(5, -1)],
                    outer_diam |-> [lower |-> Lit(1, -2), upper |-> Lit(6, -1)]]

\* A call with both arguments given and different, and a call with neither.
C4_Witness ==
    \E c \in CallIds :
        /\ pc[c] = "driver"
        /\ args[c] = Arg(Lit(5, -2), Lit(3, 0))
        /\ problem[c].constraints.thickness.lower = Lit(3, -3)

\* C5: whenever optimize returns converged = true, whatever the minimum
\* thickness, the returned outer_diam is greater than the returned
\* inner_diam and the returned thickness is positive; no point with
\* outer_diam <= inner_diam satisfies the registered constraints.
C5_PositiveThickness ==
    \A c \in CallIds :
        /\ (Returned(c) /\ Converged(c)) =>
               /\ FGt(OuterOf(c), InnerOf(c))
               /\ FGt(ThicknessOf(c), Zero)
        /\ (pc[c] \in {"driver", "extract", "returned"}
              /\ FLe(problem[c].inputs.outer_diam, problem[c].inputs.inner_diam))
               => ~Feasible(problem[c])

\* A converged call whose minimum thickness was zero or negative.
C5_Witness ==
    \E c \in CallIds :
        /\ Returned(c) /\ Converged(c)
        /\ FLe(MinThickness(c), Zero)


\* The values at the final point of a returned call, lengths in mm.
FinalInner(c) == get_val_mm(problem[c].inputs.inner_diam)
FinalOuter(c) == get_val_mm(problem[c].inputs.outer_diam)
FinalThickness(c) == get_val_mm(problem[c].outputs.thickness)
FinalMargin(c) == problem[c].outputs.safety_margins

LengthsRounded(c) ==
    /\ IsMultiple(InnerOf(c), 3) /\ Within(InnerOf(c), FinalInner(c), HalfStepMm)
    /\ IsMultiple(OuterOf(c), 3) /\ Within(OuterOf(c), FinalOuter(c), HalfStepMm)
    /\ IsMultiple(ThicknessOf(c), 3)
    /\ Within(ThicknessOf(c), FinalThickness(c), HalfStepMm)

MarginRounded(c) ==
    /\ IsMultiple(MarginOf(c), 4)
    /\ Within(MarginOf(c), FinalMargin(c), HalfStepMargin)

LengthsRoundedFp(c) ==
    /\ IsMultiple(InnerOf(c), 3)
    /\ WithinFp(InnerOf(c), FinalInner(c), HalfStepMm)
    /\ IsMultiple(OuterOf(c), 3)
    /\ WithinFp(OuterOf(c), FinalOuter(c), HalfStepMm)
    /\ IsMultiple(ThicknessOf(c), 3)
    /\ WithinFp(ThicknessOf(c), FinalThickness(c), HalfStepMm)

MarginRoundedFp(c) ==
    /\ IsMultiple(MarginOf(c), 4)
    /\ WithinFp(MarginOf(c), FinalMargin(c), HalfStepMargin)

\* C6 as stated: the returned numbers are, in the order inner_diam,
\* outer_diam, thickness, safety_margin, the values at the final point, each
\* length in mm a multiple of 0.001 within 0.0005 of it and the safety margin
\* a multiple of 0.0001 within 0.00005 of it.
C6_Original ==
    \A c \in CallIds : Returned(c) => (LengthsRounded(c) /\ MarginRounded(c))

\* C6 amended: as stated, except that the distances 0.0005 and 0.00005 hold
\* up to the floating-point error of the rounding (the relative 1e-15 of the
\* final-point value), and that a safety margin that is not-a-number at the
\* final point (a last point of zero wall thickness) is returned as
\* not-a-number.
C6_RoundedReadBack ==
    \A c \in CallIds :
        Returned(c) =>
            /\ LengthsRoundedFp(c)
            /\ IF IsNaN(FinalMargin(c)) THEN IsNaN(MarginOf(c))
               ELSE MarginRoundedFp(c)

\* A returned call whose thickness and safety margin were both changed by
\* the rounding.
C6_Witness ==
    \E c \in CallIds :
        /\ Returned(c)
        /\ ThicknessOf(c) # FinalThickness(c)
        /\ IsFin(FinalMargin(c)) /\ MarginOf(c) # FinalMargin(c)

\* The state of one call.
CallState(c) == <<pc[c], self[c], args[c], problem[c], flag[c], result[c]>>

\* The problems a call can have at its current point had it been the only
\* call ever made: built afresh from its object and its arguments, and
\* evaluated at that point (one problem for each result of the pow of the
\* library).
AloneProblems(c) ==
    LET p == optimize_problem(objs[self[c]], args[c].minimim_safety_margin,
                              args[c].minimum_thickness)
    IN  { [p EXCEPT !.inputs = problem[c].inputs, !.outputs = out] :
              out \in compute(p.comp, problem[c].inputs) }

\* C7: optimize never changes an object; the problem of a call starts at the
\* initial guess (0.060, 0.100) whatever the load case, with the loads of its
\* object; a step of one call changes nothing of any other call; and what a
\* call returns is what it would return at the same final point and flag had
\* it been the only call ever made.
C7_NoSharedState ==
    [][ /\ objs' = objs
        /\ \A c \in CallIds :
              /\ (pc[c] = "idle" /\ pc'[c] # "idle") =>
                     /\ problem'[c].inputs = Pt(Lit(60, -3), Lit(100, -3))
                     /\ problem'[c].comp.axial_force = objs[self'[c]].axial_force
                     /\ problem'[c].comp.bending_moment =
                            objs[self'[c]].bending_moment
              /\ (CallState(c)' # CallState(c)) =>
                     \A d \in CallIds \ {c} : CallState(d)' = CallState(d)
              /\ (pc[c] # "returned" /\ pc'[c] = "returned") =>
                     \E p \in AloneProblems(c) :
                         result'[c] = optimize_return(flag[c], p)
      ]_vars

\* Two calls in progress on the same object, one already away from the
\* initial guess and one just set up.
C7_Witness ==
    \E c, d \in CallIds :
        /\ c # d /\ self[c] = self[d]
        /\ pc[c] = "driver" /\ problem[c].inputs # Pt(Lit(60, -3), Lit(100, -3))
        /\ pc[d] = "setup" /\ problem[d].inputs = Pt(Lit(60, -3), Lit(100, -3))

\* An evaluation at a point with outer_diam <= inner_diam.
Degenerate(ev) ==
    ev # None /\ FLe(ev.inputs.outer_diam, ev.inputs.inner_diam)

\* C8: at a point with outer_diam <= inner_diam the structural model still
\* writes all four outputs, with what the arithmetic gives: a thickness that
\* is zero or negative, a negative ratio, or at zero thickness a zero area,
\* an infinite ratio and a safety margin of -1 or not-a-number.
C8_DegeneratePropagates ==
    Degenerate(cur) =>
        /\ DOMAIN cur.outputs = OutputNames
        /\ \A name \in OutputNames : IsNumber(cur.outputs[name])
        /\ FLe(cur.outputs.thickness, Zero)
        /\ FLt(cur.outputs.thickness, Zero) =>
               FLt(cur.outputs.diam_over_thickness, Zero)
        /\ IsZero(cur.outputs.thickness) =>
               /\ IsZero(cur.outputs.area)
               /\ cur.outputs.diam_over_thickness = Inf(1)
               /\ \/ IsNaN(cur.outputs.safety_margins)
                  \/ cur.outputs.safety_margins = Lit(-1, 0)

\* An evaluation at zero thickness that gave a not-a-number safety margin.
C8_Witness ==
    /\ Degenerate(cur)
    /\ IsZero(cur.outputs.thickness)
    /\ IsNaN(cur.outputs.safety_margins)

\* Two evaluations at the same inner_diam, the later one at the larger
\* outer_diam.
Widened ==
    /\ prev # None /\ cur # None
    /\ prev.inputs.inner_diam = cur.inputs.inner_diam
    /\ FLt(Zero, prev.inputs.outer_diam)
    /\ FLt(prev.inputs.outer_diam, cur.inputs.outer_diam)

\* C9 as stated: at the same inner_diam, the area at the larger outer_diam
\* is strictly greater, whatever the loads.
C9_Original == Widened => FGt(cur.outputs.area, prev.outputs.area)

\* C9 amended: at the same inner_diam, the area at the larger outer_diam is
\* never smaller, whatever the loads, and in floating point it can be equal;
\* this for areas that are numbers (where the squares of both diameters
\* overflow the area is not-a-number).
C9_AreaNeverDecreases ==
    (Widened /\ ~IsNaN(prev.outputs.area) /\ ~IsNaN(cur.outputs.area)) =>
        FGe(cur.outputs.area, prev.outputs.area)

\* Two evaluations of a tube (outer_diam above inner_diam) under different
\* loads, at adjacent values of outer_diam, that gave the same area.
C9_Witness ==
    /\ Widened
    /\ prev.comp # cur.comp
    /\ FLt(prev.inputs.inner_diam, prev.inputs.outer_diam)
    /\ cur.inputs.outer_diam = NextUp(prev.inputs.outer_diam)
    /\ IsFin(cur.outputs.area)
    /\ FEq(cur.outputs.area, prev.outputs.area)

\* Half the difference of the returned diameters.
HalfDiff(c) == FDiv(FSub(OuterOf(c), InnerOf(c)), Lit(2, 0))
StepMm == Lit(1, -3)

\* C10 as stated: the returned thickness and half the difference of the
\* returned diameters differ by at most 0.001 mm.
C10_Original ==
    \A c \in CallIds :
        Returned(c) => Within(ThicknessOf(c), HalfDiff(c), StepMm)

\* C10 amended: the returned thickness and half the difference of the
\* returned diameters differ by at most 0.001 mm up to the floating-point
\* error of the three roundings (the relative 1e-15 of the sum of the
\* returned diameters); they are not always equal.
C10_ThicknessConsistent ==
    \A c \in CallIds :
        Returned(c) =>
            FLe(FAbs(FSub(ThicknessOf(c), HalfDiff(c))),
                FAdd(StepMm, FpSlack(FAdd(OuterOf(c), InnerOf(c)))))

\* A returned call where the two differ by more than 0.0009 mm.
C10_Witness ==
    \E c \in CallIds :
        /\ Returned(c)
        /\ FGt(FAbs(FSub(ThicknessOf(c), HalfDiff(c))), Lit(9, -4))

=============================================================================
